---- MODULE Spec2Model ----
(***************************************************************************)
(* The research subgraph of kumak-agent (src/app/graph/research_graph.py)  *)
(* and its caller deep_market_research (src/app/graph/nodes.py).           *)
(*                                                                         *)
(* The graph is a LangGraph StateGraph: it runs in supersteps.  The tasks  *)
(* of one superstep (the nodes triggered by the previous superstep and one *)
(* task per Send it emitted) run concurrently on a snapshot of the state;  *)
(* when all of them have completed, their writes are applied to the        *)
(* channels (search_results through its reducer operator.add, every other  *)
(* key as a last-value channel) and the next superstep is planned.  A task *)
(* that raises aborts the run: ainvoke raises to deep_market_research.     *)
(***************************************************************************)
EXTENDS Integers, Sequences, FiniteSets, TLC

VARIABLES
    pc,        \* position of deep_market_research: "start", "running",
               \* "finished" (ainvoke returned), "raised", "returned"
    state,     \* the ResearchState dict: only the keys written so far
    tasks,     \* the tasks of the current superstep, in task order
    step,      \* number of the current superstep (0 before ainvoke)
    outcome,   \* what deep_market_research returned to its caller
    calls,     \* history: invocations started so far, per node
    batches,   \* history: follow-up batches dispatched so far
    report_writes, \* history: writes applied to the report channel
    feedbacks, \* history: the feedback of every quality check applied so far
    raised_in, \* history: the node whose generation call raised, "" if none
    order,     \* history: the tasks of a batch in the order they completed
    \* src/app/database/postgres.py
    _connection_pool,  \* the module global: None or the number of a pool
    _postgres_saver,   \* the module global: None or the number of a saver
    pools,     \* the ConnectionPool objects constructed so far
    savers,    \* the PostgresSaver objects constructed so far
    threads,   \* per thread: the call it is in and that call's locals
    max_retries, \* with_retry's argument
    delay,     \* with_retry's argument
    constructed, \* history: pools constructed since the last close
    \* the tools of src/app/graph/nodes.py
    tool_call, \* the tool call being executed and its position
    pymes_state, \* the PYMESState the tool's Command is applied to
    command    \* the update of the Command the tool returned

research_vars ==
    <<pc, state, tasks, step, outcome, calls, batches, report_writes,
      feedbacks, raised_in>>

postgres_vars ==
    <<_connection_pool, _postgres_saver, pools, savers, threads,
      max_retries, delay, constructed>>

tool_vars == <<tool_call, pymes_state, command>>

\* what the research graph does not touch
other_vars == <<order, postgres_vars, tool_vars>>

vars == <<research_vars, other_vars>>

----------------------------------------------------------------------------
\* Bounds of the model.

\* longest plan the planner returns
MaxPlan == 2

\* longest follow_up_queries list the quality checker returns
MaxFollowUps == 1

\* supersteps explored (the graph itself needs at most 8)
MaxSteps == 10

\* longest reply of the insight-extraction call, in lines (researcher alone)
MaxReplyLines == 6

\* most snippets in a search response (researcher alone)
MaxSnippets == 2

\* most researchers in a batch (batch alone)
MaxBatch == 3

\* threads that call into postgres.py
NThreads == 2

\* calls each thread makes into postgres.py
MaxCalls == 2

\* largest max_retries given to with_retry (decorator alone)
MaxRetries == 5

----------------------------------------------------------------------------
\* Program constants.

max_iterations == 3

\* the [:5] slice of the insights list
insights_limit == 5

\* Python's None among object numbers (the objects are numbered from 1)
None == 0

\* settings.py: the defaults of with_retry's arguments
DB_CONNECTION_RETRIES == 5

DB_RETRY_DELAY == 5

----------------------------------------------------------------------------
\* Data.

SeqsUpTo(S, n) == UNION {[1..k -> S] : k \in 0..n}

Topics == {"topic"}

ResearchQuery(search_query, purpose) ==
    [search_query |-> search_query, purpose |-> purpose]

\* the plans the planner can answer: 0..MaxPlan complementary queries
PlannedQuery(i) == ResearchQuery(<<"planned query", i>>, <<"purpose", i>>)

ResearchPlan ==
    {[queries |-> [i \in 1..n |-> PlannedQuery(i)], research_focus |-> "focus"]
        : n \in 0..MaxPlan}

\* the queries the quality checker can ask for, in any order and number
FollowUpPool ==
    { ResearchQuery("follow-up a", "gap a"),
      ResearchQuery("follow-up b", "gap b") }

QualityFeedback ==
    [grade : {"pass", "fail"},
     missing_aspects : {<<>>},
     follow_up_queries : SeqsUpTo(FollowUpPool, MaxFollowUps)]

\* state.get(key, default)
Get(s, key, default) == IF key \in DOMAIN s THEN s[key] ELSE default

NoWrites == <<>>

Send(node, arg) == [node |-> node, arg |-> arg]

Task(node, arg) ==
    [node |-> node, arg |-> arg, done |-> FALSE, caught |-> "",
     writes |-> NoWrites, sends |-> <<>>, goto |-> {}]

----------------------------------------------------------------------------
\* Adapter outcomes: what the external calls can answer.

Raised(e) == [raised |-> TRUE, e |-> e, value |-> <<>>]
Returned(v) == [raised |-> FALSE, e |-> "", value |-> v]

\* lines an insight-extraction reply is made of
ReplyLines == {"alpha", " beta ", " ", "# heading"}

\* every search and insight-extraction outcome (researcher alone)
SearchOutcomes ==
    {Raised("NetworkError")}
        \cup {Returned(r) : r \in SeqsUpTo({"snippet"}, MaxSnippets)}

InsightOutcomes ==
    {Raised("ProviderError")}
        \cup {Returned(r) : r \in SeqsUpTo(ReplyLines, MaxReplyLines)}

\* the outcomes drawn inside a whole pipeline run: a researcher fails or
\* succeeds (both adapters can fail in the researcher-alone specification)
PipelineSearchOutcomes == {Raised("NetworkError"), Returned(<<"snippet">>)}

PipelineInsightOutcomes == {Returned(<<"# heading", " beta ">>)}

----------------------------------------------------------------------------
\* The nodes, as functions from what they read to the update they return.

\* str.strip() on a reply line
Strip(line) ==
    CASE line = " beta " -> "beta"
      [] line = " " -> ""
      [] OTHER -> line

StartsWithHash(line) == line = "# heading"

\* seq[:n]
Take(seq, n) == SubSeq(seq, 1, IF Len(seq) < n THEN Len(seq) ELSE n)

\* mutant: the [:5] slice is missing
ExtractInsights_no_limit(lines) ==
    LET kept == SelectSeq(lines,
                    LAMBDA l : Strip(l) # "" /\ ~StartsWithHash(Strip(l)))
    IN  [i \in 1..Len(kept) |-> Strip(kept[i])]

\* [insight.strip() for insight in content.split('\n')
\*      if insight.strip() and not insight.strip().startswith('#')][:5]
ExtractInsights(lines) ==
    LET kept == SelectSeq(lines,
                    LAMBDA l : Strip(l) # "" /\ ~StartsWithHash(Strip(l)))
    IN  Take([i \in 1..Len(kept) |-> Strip(kept[i])], insights_limit)

\* "\n".join([f"- {r['content']}" for r in response.get('results', [])])
RawContent(results) == [i \in 1..Len(results) |-> <<"- ", results[i]>>]

ErrorContent(e) == <<"Error al obtener informacion: ", e>>

ErrorInsight == "Error en la busqueda - informacion no disponible"

ResearchResult(query, purpose, content, key_insights) ==
    [query |-> query, purpose |-> purpose,
     content |-> content, key_insights |-> key_insights]

enhanced_planner_node(s, plan) ==
    [plan |-> plan, research_iterations |-> 0]

\* mutant: the last planned query is not mapped
enhanced_map_queries_skip_last(s) ==
    [i \in 1..(Len(s.plan.queries) - 1) |->
        Send("enhanced_researcher_node",
             [query |-> s.plan.queries[i].search_query,
              purpose |-> s.plan.queries[i].purpose,
              topic |-> s.topic])]

enhanced_map_queries(s) ==
    [i \in 1..Len(s.plan.queries) |->
        Send("enhanced_researcher_node",
             [query |-> s.plan.queries[i].search_query,
              purpose |-> s.plan.queries[i].purpose,
              topic |-> s.topic])]

\* mutant: an error result does not carry the query it was dispatched for
\* (queries are pairs in the batch specification)
enhanced_researcher_node_error_without_query(arg, search, insight) ==
    IF search.raised
    THEN [search_results |->
            <<ResearchResult(<<"unknown query", 0>>, arg.purpose,
                             ErrorContent(search.e), <<ErrorInsight>>)>>]
    ELSE IF insight.raised
    THEN [search_results |->
            <<ResearchResult(<<"unknown query", 0>>, arg.purpose,
                             ErrorContent(insight.e), <<ErrorInsight>>)>>]
    ELSE [search_results |->
            <<ResearchResult(arg.query, arg.purpose,
                             RawContent(search.value),
                             ExtractInsights(insight.value))>>]

enhanced_researcher_node(arg, search, insight) ==
    IF search.raised
    THEN [search_results |->
            <<ResearchResult(arg.query, arg.purpose,
                             ErrorContent(search.e), <<ErrorInsight>>)>>]
    ELSE IF insight.raised
    THEN [search_results |->
            <<ResearchResult(arg.query, arg.purpose,
                             ErrorContent(insight.e), <<ErrorInsight>>)>>]
    ELSE [search_results |->
            <<ResearchResult(arg.query, arg.purpose,
                             RawContent(search.value),
                             ExtractInsights(insight.value))>>]

\* mutant: only a failing evaluation is counted
quality_checker_node_counts_fail_only(s, feedback) ==
    [quality_check |-> feedback,
     research_iterations |->
        Get(s, "research_iterations", 0)
            + (IF feedback.grade = "fail" THEN 1 ELSE 0)]

\* mutant: the counter is written back as it was read
quality_checker_node_no_increment(s, feedback) ==
    [quality_check |-> feedback,
     research_iterations |-> Get(s, "research_iterations", 0)]

quality_checker_node(s, feedback) ==
    [quality_check |-> feedback,
     research_iterations |-> Get(s, "research_iterations", 0) + 1]

\* The report is the generation call's answer; it is tagged with the prompt
\* it was generated from (methodology and research_data).
enhanced_synthesizer_node(s) ==
    [report |->
        [methodology |->
            [queries |-> Len(s.plan.queries),
             iterations |-> s.research_iterations,
             focus |-> s.plan.research_focus],
         research_data |-> s.search_results]]

FollowUpSends(s) ==
    [i \in 1..Len(s.quality_check.follow_up_queries) |->
        Send("enhanced_researcher_node",
             [query |-> s.quality_check.follow_up_queries[i].search_query,
              purpose |-> s.quality_check.follow_up_queries[i].purpose,
              topic |-> s.topic])]

\* mutant: the planned queries are sent again, not the follow-up queries
map_follow_up_queries_replans(s) ==
    IF /\ "quality_check" \in DOMAIN s
       /\ s.quality_check.grade = "fail"
       /\ Get(s, "research_iterations", 0) < max_iterations
       /\ s.quality_check.follow_up_queries # <<>>
    THEN enhanced_map_queries(s)
    ELSE <<>>

\* mutant: the grade is not looked at
map_follow_up_queries_any_grade(s) ==
    IF /\ "quality_check" \in DOMAIN s
       /\ Get(s, "research_iterations", 0) < max_iterations
       /\ s.quality_check.follow_up_queries # <<>>
    THEN FollowUpSends(s)
    ELSE <<>>

\* mutant: the iteration count is not looked at
map_follow_up_queries_unbounded(s) ==
    IF /\ "quality_check" \in DOMAIN s
       /\ s.quality_check.grade = "fail"
       /\ s.quality_check.follow_up_queries # <<>>
    THEN FollowUpSends(s)
    ELSE <<>>

\* mutant: <= for <
map_follow_up_queries_off_by_one(s) ==
    IF /\ "quality_check" \in DOMAIN s
       /\ s.quality_check.grade = "fail"
       /\ Get(s, "research_iterations", 0) <= max_iterations
       /\ s.quality_check.follow_up_queries # <<>>
    THEN FollowUpSends(s)
    ELSE <<>>

map_follow_up_queries(s) ==
    IF /\ "quality_check" \in DOMAIN s
       /\ s.quality_check.grade = "fail"
       /\ Get(s, "research_iterations", 0) < max_iterations
       /\ s.quality_check.follow_up_queries # <<>>
    THEN [i \in 1..Len(s.quality_check.follow_up_queries) |->
            Send("enhanced_researcher_node",
                 [query |-> s.quality_check.follow_up_queries[i].search_query,
                  purpose |-> s.quality_check.follow_up_queries[i].purpose,
                  topic |-> s.topic])]
    ELSE <<>>

\* mutant: a failed grade is checked again unless the iterations are used up
route_after_quality_check_recheck(s) ==
    IF \/ "quality_check" \notin DOMAIN s
       \/ s.quality_check.grade = "pass"
       \/ Get(s, "research_iterations", 0) >= max_iterations
    THEN "enhanced_synthesizer"
    ELSE "quality_checker"

route_after_quality_check(s) ==
    IF \/ "quality_check" \notin DOMAIN s
       \/ s.quality_check.grade = "pass"
       \/ Get(s, "research_iterations", 0) >= max_iterations
       \/ s.quality_check.follow_up_queries = <<>>
    THEN "enhanced_synthesizer"
    ELSE "enhanced_synthesizer"

----------------------------------------------------------------------------
\* The graph built by create_enhanced_research_graph and its execution.

Nodes ==
    <<"enhanced_planner", "enhanced_researcher_node",
      "quality_checker", "enhanced_synthesizer">>

EntryPoint == "enhanced_planner"

\* mutant: the edge from the researcher to the quality checker is missing
Edges_no_join(node) == {}

\* add_edge: the nodes a completed node triggers (END triggers none)
Edges(node) ==
    CASE node = "enhanced_researcher_node" -> {"quality_checker"}
      [] node = "enhanced_synthesizer" -> {}
      [] OTHER -> {}

\* add_conditional_edges: the Sends a completed node emits; the branch
\* functions read the state with the node's own update applied
ConditionalSends(node, s) ==
    CASE node = "enhanced_planner" -> enhanced_map_queries(s)
      [] node = "quality_checker" -> map_follow_up_queries(s)
      [] OTHER -> <<>>

\* add_conditional_edges: the nodes a completed node routes to
ConditionalGoto(node, s) ==
    CASE node = "quality_checker" -> {route_after_quality_check(s)}
      [] OTHER -> {}

\* mutant: the report channel keeps the first value written to it
ApplyUpdate_keeps_first_report(s, w) ==
    [k \in DOMAIN s \cup DOMAIN w |->
        IF k \notin DOMAIN w THEN s[k]
        ELSE IF k = "search_results" /\ k \in DOMAIN s
             THEN s[k] \o w[k]
             ELSE IF k = "report" /\ k \in DOMAIN s THEN s[k] ELSE w[k]]

\* mutant: search_results keeps the last value written, like the other keys
ApplyUpdate_last_value(s, w) ==
    [k \in DOMAIN s \cup DOMAIN w |->
        IF k \notin DOMAIN w THEN s[k] ELSE w[k]]

\* one task's update applied to the channels: search_results is
\* Annotated[List, add], every other key keeps the last value written
ApplyUpdate(s, w) ==
    [k \in DOMAIN s \cup DOMAIN w |->
        IF k \notin DOMAIN w THEN s[k]
        ELSE IF k = "search_results" /\ k \in DOMAIN s
             THEN s[k] \o w[k]
             ELSE w[k]]

\* the updates of a superstep's tasks applied in task order
RECURSIVE ApplyWrites(_, _)
ApplyWrites(s, ts) ==
    IF ts = <<>> THEN s
    ELSE ApplyWrites(ApplyUpdate(s, Head(ts).writes), Tail(ts))

\* two tasks of one superstep wrote the same last-value channel
InvalidUpdate(ts) ==
    \E i, j \in 1..Len(ts) :
        /\ i < j
        /\ (DOMAIN ts[i].writes \cap DOMAIN ts[j].writes)
               \ {"search_results"} # {}

RECURSIVE AllSends(_)
AllSends(ts) ==
    IF ts = <<>> THEN <<>> ELSE Head(ts).sends \o AllSends(Tail(ts))

Triggered(ts) == UNION {ts[i].goto : i \in 1..Len(ts)}

\* mutant: one task per edge that triggers a node, not one per node
NextTasks_per_edge(ts) ==
    LET pull == SelectSeq(ts, LAMBDA t : t.goto # {})
        push == AllSends(ts)
    IN  [i \in 1..Len(pull) |-> Task(CHOOSE n \in pull[i].goto : TRUE, <<>>)]
            \o [i \in 1..Len(push) |-> Task(push[i].node, <<push[i].arg>>)]

\* the next superstep: one task per triggered node, then one per Send
NextTasks(ts) ==
    LET pull == SelectSeq(Nodes, LAMBDA n : n \in Triggered(ts))
        push == AllSends(ts)
    IN  [i \in 1..Len(pull) |-> Task(pull[i], <<>>)]
            \o [i \in 1..Len(push) |-> Task(push[i].node, <<push[i].arg>>)]

CountNode(ts, node) == Cardinality({i \in 1..Len(ts) : ts[i].node = node})

Started(c, ts) == [n \in DOMAIN c |-> c[n] + CountNode(ts, n)]

\* a task that has run its node and the branch functions attached to it
Complete(t, w) ==
    [t EXCEPT !.done = TRUE,
              !.writes = w,
              !.sends = ConditionalSends(t.node, ApplyUpdate(state, w)),
              !.goto = Edges(t.node)
                         \cup ConditionalGoto(t.node, ApplyUpdate(state, w))]

Running(i, node) ==
    /\ pc = "running"
    /\ i \in 1..Len(tasks)
    /\ tasks[i].node = node
    /\ ~tasks[i].done

----------------------------------------------------------------------------
\* Actions.

\* postgres.py as imported: no singleton exists and no thread is inside it
PostgresImported ==
    /\ _connection_pool = None
    /\ _postgres_saver = None
    /\ pools = <<>>
    /\ savers = <<>>
    /\ constructed = 0
    /\ max_retries = DB_CONNECTION_RETRIES
    /\ delay = DB_RETRY_DELAY

\* no tool call is being executed
NoToolCall ==
    /\ tool_call = <<>>
    /\ pymes_state = <<>>
    /\ command = <<>>

NoCalls == [n \in {Nodes[i] : i \in 1..Len(Nodes)} |-> 0]

\* deep_market_research has not been called
ResearchNotStarted ==
    /\ pc = "start"
    /\ state = <<>>
    /\ tasks = <<>>
    /\ step = 0
    /\ outcome = "none"
    /\ calls = NoCalls
    /\ batches = 0
    /\ report_writes = 0
    /\ feedbacks = <<>>
    /\ raised_in = ""
    /\ order = <<>>

Init ==
    /\ ResearchNotStarted
    /\ PostgresImported
    /\ threads = <<>>
    /\ NoToolCall

\* deep_market_research: research_graph.ainvoke(initial_state)
Invoke(topic) ==
    /\ pc = "start"
    /\ pc' = "running"
    /\ state' = [topic |-> topic, search_results |-> <<>>]
    /\ tasks' = <<Task(EntryPoint, <<>>)>>
    /\ step' = 1
    /\ calls' = Started(calls, tasks')
    /\ UNCHANGED <<outcome, batches, report_writes,
                   feedbacks, raised_in>>
    /\ UNCHANGED other_vars

PlannerReturns(i, plan) ==
    /\ Running(i, "enhanced_planner")
    /\ tasks' = [tasks EXCEPT ![i] =
                    Complete(@, enhanced_planner_node(state, plan))]
    /\ UNCHANGED <<pc, state, step, outcome, calls, batches, report_writes,
                   feedbacks, raised_in>>
    /\ UNCHANGED other_vars

\* the exception the researcher's try block raises, "" when it raises none
\* (the insight-extraction call is made only after the search returned)
CaughtBy(search, insight) ==
    IF search.raised THEN search.e
    ELSE IF insight.raised THEN insight.e ELSE ""

\* a researcher task runs to its return statement
ResearcherRuns(i, search, insight) ==
    /\ Running(i, "enhanced_researcher_node")
    /\ tasks' = [tasks EXCEPT ![i] =
                    [Complete(@, enhanced_researcher_node(
                                    tasks[i].arg[1], search, insight))
                        EXCEPT !.caught = CaughtBy(search, insight)]]
    /\ UNCHANGED <<pc, state, step, outcome, calls, batches, report_writes,
                   feedbacks, raised_in>>

ResearcherReturns(i, search, insight) ==
    /\ ResearcherRuns(i, search, insight)
    /\ UNCHANGED other_vars

\* the same, with the order of completion recorded
ResearcherCompletes(i, search, insight) ==
    /\ ResearcherRuns(i, search, insight)
    /\ order' = Append(order, i)
    /\ UNCHANGED <<postgres_vars, tool_vars>>

QualityCheckerReturns(i, feedback) ==
    /\ Running(i, "quality_checker")
    /\ tasks' = [tasks EXCEPT ![i] =
                    Complete(@, quality_checker_node(state, feedback))]
    /\ UNCHANGED <<pc, state, step, outcome, calls, batches, report_writes,
                   feedbacks, raised_in>>
    /\ UNCHANGED other_vars

SynthesizerReturns(i) ==
    /\ Running(i, "enhanced_synthesizer")
    /\ tasks' = [tasks EXCEPT ![i] =
                    Complete(@, enhanced_synthesizer_node(state))]
    /\ UNCHANGED <<pc, state, step, outcome, calls, batches, report_writes,
                   feedbacks, raised_in>>
    /\ UNCHANGED other_vars

\* mutant: a quality checker whose generation call raises returns no update
NodeRaises_swallowed(i) ==
    /\ \/ Running(i, "enhanced_planner")
       \/ Running(i, "quality_checker")
       \/ Running(i, "enhanced_synthesizer")
    /\ raised_in' = tasks[i].node
    /\ IF tasks[i].node = "quality_checker"
       THEN /\ tasks' = [tasks EXCEPT ![i] =
                            [@ EXCEPT !.done = TRUE,
                                      !.goto = {"enhanced_synthesizer"}]]
            /\ pc' = pc
       ELSE /\ tasks' = <<>>
            /\ pc' = "raised"
    /\ UNCHANGED <<state, step, outcome, calls, batches, report_writes,
                   feedbacks>>
    /\ UNCHANGED other_vars

\* The generation call of the planner, the quality checker or the
\* synthesizer raises: no node catches it, the superstep's other tasks are
\* cancelled and ainvoke raises.
NodeRaises(i) ==
    /\ \/ Running(i, "enhanced_planner")
       \/ Running(i, "quality_checker")
       \/ Running(i, "enhanced_synthesizer")
    /\ pc' = "raised"
    /\ tasks' = <<>>
    /\ raised_in' = tasks[i].node
    /\ UNCHANGED <<state, step, outcome, calls, batches, report_writes,
                   feedbacks>>
    /\ UNCHANGED other_vars

\* the feedbacks the quality checkers of a superstep returned
FeedbacksOf(ts) ==
    LET qc == SelectSeq(ts, LAMBDA t : "quality_check" \in DOMAIN t.writes)
    IN  [i \in 1..Len(qc) |-> qc[i].writes.quality_check]

\* The barrier between supersteps: every task has completed; their
\* updates are applied and the next superstep starts, or the run ends.
EndStep ==
    /\ pc = "running"
    /\ tasks # <<>>
    /\ \A i \in 1..Len(tasks) : tasks[i].done
    /\ step < MaxSteps
    /\ IF InvalidUpdate(tasks)
       THEN /\ pc' = "raised"
            /\ tasks' = <<>>
            /\ UNCHANGED <<state, step, calls, batches, report_writes,
                           feedbacks>>
       ELSE /\ state' = ApplyWrites(state, tasks)
            /\ tasks' = NextTasks(tasks)
            /\ pc' = IF tasks' = <<>> THEN "finished" ELSE "running"
            /\ step' = IF tasks' = <<>> THEN step ELSE step + 1
            /\ calls' = Started(calls, tasks')
            /\ batches' =
                 IF /\ CountNode(tasks, "quality_checker") > 0
                    /\ CountNode(tasks', "enhanced_researcher_node") > 0
                 THEN batches + 1 ELSE batches
            /\ report_writes' =
                 report_writes
                   + Cardinality({i \in 1..Len(tasks) :
                                     "report" \in DOMAIN tasks[i].writes})
            /\ feedbacks' = feedbacks \o FeedbacksOf(tasks)
    /\ UNCHANGED <<outcome, raised_in>>
    /\ UNCHANGED other_vars

\* mutant: the exception of ainvoke is not caught
Return_reraises ==
    /\ pc \in {"finished", "raised"}
    /\ pc' = "returned"
    /\ outcome' =
         IF pc = "raised" THEN "raised to the caller"
         ELSE IF "report" \notin DOMAIN state
              THEN "Error: No se pudo generar el informe de investigacion."
              ELSE "formatted_report"
    /\ UNCHANGED <<state, tasks, step, calls, batches, report_writes,
                   feedbacks, raised_in>>
    /\ UNCHANGED other_vars

\* mutant: the result is formatted without looking for the report
Return_unchecked ==
    /\ pc \in {"finished", "raised"}
    /\ pc' = "returned"
    /\ outcome' =
         IF pc = "raised" THEN "Error al ejecutar la investigacion profunda"
         ELSE "formatted_report"
    /\ UNCHANGED <<state, tasks, step, calls, batches, report_writes,
                   feedbacks, raised_in>>
    /\ UNCHANGED other_vars

\* mutant: after an exception the report written earlier is returned
Return_fallback_report ==
    /\ pc \in {"finished", "raised"}
    /\ pc' = "returned"
    /\ outcome' =
         IF "report" \in DOMAIN state THEN "formatted_report"
         ELSE IF pc = "raised"
              THEN "Error al ejecutar la investigacion profunda"
              ELSE "Error: No se pudo generar el informe de investigacion."
    /\ UNCHANGED <<state, tasks, step, calls, batches, report_writes,
                   feedbacks, raised_in>>
    /\ UNCHANGED other_vars

\* deep_market_research after ainvoke: the formatted report, or one of
\* its two error messages
Return ==
    /\ pc \in {"finished", "raised"}
    /\ pc' = "returned"
    /\ outcome' =
         IF pc = "raised" THEN "Error al ejecutar la investigacion profunda"
         ELSE IF "report" \notin DOMAIN state
              THEN "Error: No se pudo generar el informe de investigacion."
              ELSE "formatted_report"
    /\ UNCHANGED <<state, tasks, step, calls, batches, report_writes,
                   feedbacks, raised_in>>
    /\ UNCHANGED other_vars

Next ==
    \/ \E topic \in Topics : Invoke(topic)
    \/ \E i \in 1..Len(tasks), plan \in ResearchPlan : PlannerReturns(i, plan)
    \/ \E i \in 1..Len(tasks), search \in PipelineSearchOutcomes,
          insight \in PipelineInsightOutcomes :
            ResearcherReturns(i, search, insight)
    \/ \E i \in 1..Len(tasks), feedback \in QualityFeedback :
            QualityCheckerReturns(i, feedback)
    \/ \E i \in 1..Len(tasks) : SynthesizerReturns(i)
    \/ \E i \in 1..Len(tasks) : NodeRaises(i)
    \/ EndStep
    \/ Return

Spec == Init /\ [][Next]_vars

\* Every adapter call eventually returns or raises, and the event loop
\* runs whatever is runnable.
FairSpec == Spec /\ WF_vars(Next)

----------------------------------------------------------------------------
\* One researcher alone, over every outcome of its two adapter calls: the
\* superstep after a plan of one query.

InitResearcher ==
    \E topic \in Topics, q \in FollowUpPool \cup {PlannedQuery(1)} :
        LET plan == [queries |-> <<q>>, research_focus |-> "focus"]
            input == [topic |-> topic, search_results |-> <<>>]
            planner == Complete(Task(EntryPoint, <<>>),
                                enhanced_planner_node(input, plan))
        IN  /\ pc = "running"
            /\ state = ApplyUpdate(input, enhanced_planner_node(input, plan))
            /\ tasks = [i \in 1..1 |->
                            Task("enhanced_researcher_node",
                                 <<[query |-> q.search_query,
                                    purpose |-> q.purpose,
                                    topic |-> topic]>>)]
            /\ step = 2
            /\ outcome = "none"
            /\ calls = [NoCalls EXCEPT !["enhanced_planner"] = 1,
                                       !["enhanced_researcher_node"] = 1]
            /\ batches = 0
            /\ report_writes = 0
            /\ feedbacks = <<>>
            /\ raised_in = ""
            /\ order = <<>>
            /\ PostgresImported
            /\ threads = <<>>
            /\ NoToolCall

NextResearcher ==
    \E i \in 1..Len(tasks), search \in SearchOutcomes,
       insight \in InsightOutcomes :
        ResearcherReturns(i, search, insight)

SpecResearcher == InitResearcher /\ [][NextResearcher]_vars

----------------------------------------------------------------------------
\* One batch alone, with the order in which its researchers complete: the
\* superstep after a plan of 1..MaxBatch queries, up to the join.

InitBatch ==
    \E topic \in Topics,
       qs \in SeqsUpTo({PlannedQuery(1), PlannedQuery(2)}, MaxBatch) \ {<<>>} :
        LET plan == [queries |-> qs, research_focus |-> "focus"]
            input == [topic |-> topic, search_results |-> <<>>]
        IN  /\ pc = "running"
            /\ state = ApplyUpdate(input, enhanced_planner_node(input, plan))
            /\ tasks = [i \in 1..Len(qs) |->
                            Task("enhanced_researcher_node",
                                 <<[query |-> qs[i].search_query,
                                    purpose |-> qs[i].purpose,
                                    topic |-> topic]>>)]
            /\ step = 2
            /\ outcome = "none"
            /\ calls = [NoCalls EXCEPT !["enhanced_planner"] = 1,
                                       !["enhanced_researcher_node"] = Len(qs)]
            /\ batches = 0
            /\ report_writes = 0
            /\ feedbacks = <<>>
            /\ raised_in = ""
            /\ order = <<>>
            /\ PostgresImported
            /\ threads = <<>>
            /\ NoToolCall

NextBatch ==
    \/ \E i \in 1..Len(tasks), search \in PipelineSearchOutcomes,
          insight \in PipelineInsightOutcomes :
            ResearcherCompletes(i, search, insight)
    \/ EndStep

SpecBatch == InitBatch /\ [][NextBatch]_vars

----------------------------------------------------------------------------
\* src/app/database/postgres.py: the module globals, the threads that call
\* its functions, one action per statement that reads or writes a global.

\* a thread outside postgres.py
IdleThread ==
    [op |-> "idle", pc |-> "idle", caller |-> "", retries |-> 0,
     attempts |-> 0, slept |-> <<>>, pool |-> None, result |-> None,
     exc |-> "", made |-> 0]

ThreadIds == DOMAIN threads

At(t, label) == t \in ThreadIds /\ threads[t].pc = label

\* 2 ** n
RECURSIVE Pow2(_)
Pow2(n) == IF n <= 0 THEN 1 ELSE 2 * Pow2(n - 1)

\* what the thread's step leaves alone
PostgresFrame == UNCHANGED <<research_vars, order, tool_vars, max_retries, delay>>

\* a thread calls get_connection_pool, get_postgres_saver (the wrapper
\* with_retry put around it) or close_postgres_connections
Call(t, op) ==
    /\ t \in ThreadIds
    /\ threads[t].pc \in {"idle", "done", "raised"}
    /\ threads[t].made < MaxCalls
    /\ threads' = [threads EXCEPT ![t] =
          [IdleThread EXCEPT
             !.op = op,
             !.made = threads[t].made + 1,
             !.caller = IF op = "get_connection_pool" THEN "top" ELSE "",
             !.pc = CASE op = "get_connection_pool" -> "gcp_if"
                      [] op = "close_postgres_connections" -> "close_pool"
                      [] OTHER -> "wrapper_while"]]
    /\ UNCHANGED <<_connection_pool, _postgres_saver, pools, savers,
                   constructed>>
    /\ PostgresFrame

\* wrapper: while retries < max_retries: try: return func(...)
WrapperWhile(t) ==
    /\ At(t, "wrapper_while")
    /\ threads' = [threads EXCEPT ![t] =
          IF @.retries < max_retries
          THEN [@ EXCEPT !.attempts = @ + 1,
                         !.pc = IF threads[t].op = "get_postgres_saver"
                                THEN "gps_if" ELSE "func_call"]
          ELSE [@ EXCEPT !.pc = "raised", !.exc = "RuntimeError"]]
    /\ UNCHANGED <<_connection_pool, _postgres_saver, pools, savers,
                   constructed>>
    /\ PostgresFrame

\* mutant: the wrapper sleeps after the last failure too
WrapperExcept_always_sleeps(t) ==
    /\ At(t, "wrapper_except")
    /\ threads' = [threads EXCEPT ![t] =
          LET retries == @.retries + 1
              current_delay == delay * Pow2(retries - 1)
          IN  IF retries < max_retries
              THEN [@ EXCEPT !.retries = retries,
                             !.slept = Append(@, current_delay),
                             !.pc = "wrapper_while"]
              ELSE [@ EXCEPT !.retries = retries,
                             !.slept = Append(@, current_delay),
                             !.pc = "raised"]]
    /\ UNCHANGED <<_connection_pool, _postgres_saver, pools, savers,
                   constructed>>
    /\ PostgresFrame

\* wrapper: except Exception: retries += 1; sleep and loop, or re-raise
WrapperExcept(t) ==
    /\ At(t, "wrapper_except")
    /\ threads' = [threads EXCEPT ![t] =
          LET retries == @.retries + 1
              current_delay == delay * Pow2(retries - 1)
          IN  IF retries < max_retries
              THEN [@ EXCEPT !.retries = retries,
                             !.slept = Append(@, current_delay),
                             !.pc = "wrapper_while"]
              ELSE [@ EXCEPT !.retries = retries, !.pc = "raised"]]
    /\ UNCHANGED <<_connection_pool, _postgres_saver, pools, savers,
                   constructed>>
    /\ PostgresFrame

\* the object a wrapped function returns
FuncValue == 1

\* a wrapped function returns
FuncReturns(t) ==
    /\ At(t, "func_call")
    /\ threads' = [threads EXCEPT ![t] =
                      [@ EXCEPT !.pc = "done", !.result = FuncValue]]
    /\ UNCHANGED <<_connection_pool, _postgres_saver, pools, savers,
                   constructed>>
    /\ PostgresFrame

\* a wrapped function raises
FuncRaises(t) ==
    /\ At(t, "func_call")
    /\ threads' = [threads EXCEPT ![t] =
                      [@ EXCEPT !.pc = "wrapper_except", !.exc = "failure"]]
    /\ UNCHANGED <<_connection_pool, _postgres_saver, pools, savers,
                   constructed>>
    /\ PostgresFrame

\* get_connection_pool: if _connection_pool is None
GcpIf(t) ==
    /\ At(t, "gcp_if")
    /\ threads' = [threads EXCEPT ![t].pc =
                      IF _connection_pool = None
                      THEN "gcp_create" ELSE "gcp_return"]
    /\ UNCHANGED <<_connection_pool, _postgres_saver, pools, savers,
                   constructed>>
    /\ PostgresFrame

\* where an exception of get_connection_pool arrives: at the caller of the
\* thread, or in get_postgres_saver, which re-raises it to the wrapper
GcpRaisesTo(caller) == IF caller = "top" THEN "raised" ELSE "wrapper_except"

\* get_connection_pool: create_database_if_not_exists() and
\* _connection_pool = ConnectionPool(...), or one of them raises
GcpCreate(t, ok) ==
    /\ At(t, "gcp_create")
    /\ IF ok
       THEN /\ pools' = Append(pools, [closed |-> FALSE])
            /\ _connection_pool' = Len(pools) + 1
            /\ constructed' = constructed + 1
            /\ threads' = [threads EXCEPT ![t].pc = "gcp_return"]
       ELSE /\ threads' = [threads EXCEPT ![t] =
                   [@ EXCEPT !.pc = GcpRaisesTo(threads[t].caller),
                             !.exc = "failure"]]
            /\ UNCHANGED <<pools, _connection_pool, constructed>>
    /\ UNCHANGED <<_postgres_saver, savers>>
    /\ PostgresFrame

\* get_connection_pool: return _connection_pool
GcpReturn(t) ==
    /\ At(t, "gcp_return")
    /\ threads' = [threads EXCEPT ![t] =
          IF @.caller = "top"
          THEN [@ EXCEPT !.pc = "done", !.result = _connection_pool]
          ELSE [@ EXCEPT !.pc = "gps_new", !.pool = _connection_pool]]
    /\ UNCHANGED <<_connection_pool, _postgres_saver, pools, savers,
                   constructed>>
    /\ PostgresFrame

\* get_postgres_saver: if _postgres_saver is None: pool = get_connection_pool()
GpsIf(t) ==
    /\ At(t, "gps_if")
    /\ threads' = [threads EXCEPT ![t] =
          IF _postgres_saver = None
          THEN [@ EXCEPT !.pc = "gcp_if", !.caller = "get_postgres_saver"]
          ELSE [@ EXCEPT !.pc = "gps_return"]]
    /\ UNCHANGED <<_connection_pool, _postgres_saver, pools, savers,
                   constructed>>
    /\ PostgresFrame

\* get_postgres_saver: _postgres_saver = PostgresSaver(pool)
GpsNew(t) ==
    /\ At(t, "gps_new")
    /\ savers' = Append(savers, [pool |-> threads[t].pool,
                                 setup |-> "not run"])
    /\ _postgres_saver' = Len(savers) + 1
    /\ threads' = [threads EXCEPT ![t].pc = "gps_setup"]
    /\ UNCHANGED <<_connection_pool, pools, constructed>>
    /\ PostgresFrame

\* get_postgres_saver: _postgres_saver.setup() completes or raises (it
\* raises when the global has been reset to None meanwhile); the except
\* branch re-raises to the wrapper
GpsSetup(t, ok) ==
    /\ At(t, "gps_setup")
    /\ IF ok /\ _postgres_saver # None
       THEN /\ savers' = [savers EXCEPT ![_postgres_saver].setup = "completed"]
            /\ threads' = [threads EXCEPT ![t].pc = "gps_return"]
       ELSE /\ threads' = [threads EXCEPT ![t] =
                   [@ EXCEPT !.pc = "wrapper_except", !.exc = "failure"]]
            /\ savers' = IF _postgres_saver = None THEN savers
                         ELSE [savers EXCEPT ![_postgres_saver].setup = "raised"]
    /\ UNCHANGED <<_connection_pool, _postgres_saver, pools, constructed>>
    /\ PostgresFrame

\* get_postgres_saver: return _postgres_saver, which the wrapper returns
GpsReturn(t) ==
    /\ At(t, "gps_return")
    /\ threads' = [threads EXCEPT ![t] =
                      [@ EXCEPT !.pc = "done", !.result = _postgres_saver]]
    /\ UNCHANGED <<_connection_pool, _postgres_saver, pools, savers,
                   constructed>>
    /\ PostgresFrame

\* close_postgres_connections: if _connection_pool: close it, set None
ClosePool(t) ==
    /\ At(t, "close_pool")
    /\ IF _connection_pool # None
       THEN /\ pools' = [pools EXCEPT ![_connection_pool].closed = TRUE]
            /\ _connection_pool' = None
       ELSE UNCHANGED <<pools, _connection_pool>>
    /\ constructed' = 0
    /\ threads' = [threads EXCEPT ![t].pc = "close_reset"]
    /\ UNCHANGED <<_postgres_saver, savers>>
    /\ PostgresFrame

\* close_postgres_connections: _postgres_saver = None
CloseReset(t) ==
    /\ At(t, "close_reset")
    /\ _postgres_saver' = None
    /\ threads' = [threads EXCEPT ![t].pc = "done"]
    /\ UNCHANGED <<_connection_pool, pools, savers, constructed>>
    /\ PostgresFrame

PostgresOps ==
    {"get_connection_pool", "get_postgres_saver",
     "close_postgres_connections"}

\* the process after import, with NThreads threads about to call in
InitPostgres ==
    /\ ResearchNotStarted
    /\ NoToolCall
    /\ PostgresImported
    /\ threads = [t \in 1..NThreads |-> IdleThread]

NextPostgres ==
    \/ \E t \in ThreadIds, op \in PostgresOps : Call(t, op)
    \/ \E t \in ThreadIds : WrapperWhile(t)
    \/ \E t \in ThreadIds : WrapperExcept(t)
    \/ \E t \in ThreadIds : GcpIf(t)
    \/ \E t \in ThreadIds, ok \in BOOLEAN : GcpCreate(t, ok)
    \/ \E t \in ThreadIds : GcpReturn(t)
    \/ \E t \in ThreadIds : GpsIf(t)
    \/ \E t \in ThreadIds : GpsNew(t)
    \/ \E t \in ThreadIds, ok \in BOOLEAN : GpsSetup(t, ok)
    \/ \E t \in ThreadIds : GpsReturn(t)
    \/ \E t \in ThreadIds : ClosePool(t)
    \/ \E t \in ThreadIds : CloseReset(t)

SpecPostgres == InitPostgres /\ [][NextPostgres]_vars

\* the delays given to with_retry (decorator alone)
Delays == {1, 5}

\* with_retry alone: one thread calling a wrapped function that returns
\* or raises at each attempt, for every max_retries and delay
InitRetry ==
    /\ ResearchNotStarted
    /\ NoToolCall
    /\ _connection_pool = None
    /\ _postgres_saver = None
    /\ pools = <<>>
    /\ savers = <<>>
    /\ constructed = 0
    /\ threads = <<IdleThread>>
    /\ max_retries \in 0..MaxRetries
    /\ delay \in Delays

NextRetry ==
    \/ \E t \in ThreadIds : Call(t, "func")
    \/ \E t \in ThreadIds : WrapperWhile(t)
    \/ \E t \in ThreadIds : WrapperExcept(t)
    \/ \E t \in ThreadIds : FuncReturns(t)
    \/ \E t \in ThreadIds : FuncRaises(t)

SpecRetry == InitRetry /\ [][NextRetry]_vars

----------------------------------------------------------------------------
\* The tools analyze_and_synthesize and create_action_and_savings_plan of
\* src/app/graph/nodes.py: each returns a Command whose update is applied
\* to the PYMESState.

\* an Optional value: Nothing is None, Some(v) the value v
Nothing == <<>>
Some(v) == <<v>>

ToolCallIds == {"call_1", "call_2"}

ToolMessage(content, tool_call_id) ==
    [type |-> "tool", content |-> content, tool_call_id |-> tool_call_id]

\* what chain.invoke can answer in analyze_and_synthesize: it raises, it
\* returns None, or it returns an AnalysisResult
AnalysisResults ==
    [business_info_update : {Nothing, Some("pizzeria")},
     key_insights_for_memory : {Nothing, Some(<<>>), Some(<<"insight">>)},
     next_topic_to_discuss : {Nothing, Some(""), Some("tema")}]

AnalysisOutcomes ==
    {Raised("ProviderError"), Returned(Nothing)}
        \cup {Returned(Some(a)) : a \in AnalysisResults}

\* what chain.invoke can answer in create_action_and_savings_plan
PlanOutcomes ==
    {Raised("ProviderError"), Returned(Nothing),
     Returned(Some("strategic plan"))}

\* the call inside the try block raised, or what it returned has no fields
FailsInternally(answer) == answer.raised \/ Len(answer.value) = 0

\* x or 'Ninguno'
OrNinguno(opt) == IF Len(opt) > 0 /\ opt[1] # "" THEN opt[1] ELSE "Ninguno"

\* mutant: the except branch also resets business_info
analyze_and_synthesize_resets_info(tool_call_id, answer) ==
    IF FailsInternally(answer)
    THEN [messages |->
            <<ToolMessage("Error durante el analisis.", tool_call_id)>>,
          business_info |-> Nothing]
    ELSE LET analysis == answer.value[1]
             keys == {"messages"}
                \cup (IF Len(analysis.business_info_update) > 0
                      THEN {"business_info"} ELSE {})
                \cup (IF /\ Len(analysis.key_insights_for_memory) > 0
                         /\ Len(analysis.key_insights_for_memory[1]) > 0
                      THEN {"long_term_memory"} ELSE {})
         IN  [k \in keys |->
                CASE k = "business_info" -> analysis.business_info_update
                  [] k = "long_term_memory" ->
                        analysis.key_insights_for_memory[1]
                  [] OTHER ->
                        <<ToolMessage(
                            <<"Analisis completado. Proximo tema sugerido: ",
                              OrNinguno(analysis.next_topic_to_discuss)>>,
                            tool_call_id)>>]

\* the update of the Command analyze_and_synthesize returns
analyze_and_synthesize(tool_call_id, answer) ==
    IF FailsInternally(answer)
    THEN [messages |->
            <<ToolMessage("Error durante el analisis.", tool_call_id)>>]
    ELSE LET analysis == answer.value[1]
             keys == {"messages"}
                \cup (IF Len(analysis.business_info_update) > 0
                      THEN {"business_info"} ELSE {})
                \cup (IF /\ Len(analysis.key_insights_for_memory) > 0
                         /\ Len(analysis.key_insights_for_memory[1]) > 0
                      THEN {"long_term_memory"} ELSE {})
         IN  [k \in keys |->
                CASE k = "business_info" -> analysis.business_info_update
                  [] k = "long_term_memory" ->
                        analysis.key_insights_for_memory[1]
                  [] OTHER ->
                        <<ToolMessage(
                            <<"Analisis completado. Proximo tema sugerido: ",
                              OrNinguno(analysis.next_topic_to_discuss)>>,
                            tool_call_id)>>]

\* the update of the Command create_action_and_savings_plan returns
create_action_and_savings_plan(tool_call_id, answer) ==
    IF FailsInternally(answer)
    THEN [messages |->
            <<ToolMessage("Error al generar el plan de accion.",
                          tool_call_id)>>]
    ELSE [messages |->
            <<ToolMessage(<<"Plan de accion y ahorro creado exitosamente:",
                            answer.value[1]>>, tool_call_id)>>,
          current_plan |-> answer.value]

\* a Command's update applied to the PYMESState: messages and
\* long_term_memory are appended to, the other keys replaced
ApplyCommand(s, update) ==
    [k \in DOMAIN s |->
        IF k \notin DOMAIN update THEN s[k]
        ELSE IF k \in {"messages", "long_term_memory"}
             THEN s[k] \o update[k]
             ELSE update[k]]

ToolNames == {"analyze_and_synthesize", "create_action_and_savings_plan"}

\* the PYMESState a tool call starts from
PriorStates ==
    [messages : {<<>>},
     business_info : {Some("bodega")},
     long_term_memory : {<<>>, <<"old insight">>},
     current_plan : {Nothing, Some("old plan")}]

\* a tool call has been issued with its injected tool_call_id
InitTools ==
    /\ ResearchNotStarted
    /\ PostgresImported
    /\ threads = <<>>
    /\ tool_call \in [name : ToolNames, tool_call_id : ToolCallIds,
                      pc : {"called"}, failed : {FALSE}]
    /\ pymes_state \in PriorStates
    /\ command = <<>>

ToolFrame == UNCHANGED <<research_vars, order, postgres_vars>>

AnalyzeReturns(answer) ==
    /\ tool_call.pc = "called"
    /\ tool_call.name = "analyze_and_synthesize"
    /\ command' = analyze_and_synthesize(tool_call.tool_call_id, answer)
    /\ tool_call' = [tool_call EXCEPT !.pc = "returned",
                                      !.failed = FailsInternally(answer)]
    /\ UNCHANGED pymes_state
    /\ ToolFrame

PlanReturns(answer) ==
    /\ tool_call.pc = "called"
    /\ tool_call.name = "create_action_and_savings_plan"
    /\ command' = create_action_and_savings_plan(tool_call.tool_call_id,
                                                 answer)
    /\ tool_call' = [tool_call EXCEPT !.pc = "returned",
                                      !.failed = FailsInternally(answer)]
    /\ UNCHANGED pymes_state
    /\ ToolFrame

\* the graph applies the Command the tool returned
CommandApplied ==
    /\ tool_call.pc = "returned"
    /\ pymes_state' = ApplyCommand(pymes_state, command)
    /\ tool_call' = [tool_call EXCEPT !.pc = "applied"]
    /\ UNCHANGED command
    /\ ToolFrame

NextTools ==
    \/ \E answer \in AnalysisOutcomes : AnalyzeReturns(answer)
    \/ \E answer \in PlanOutcomes : PlanReturns(answer)
    \/ CommandApplied

SpecTools == InitTools /\ [][NextTools]_vars

----------------------------------------------------------------------------
\* Properties.

Researchers(ts) == CountNode(ts, "enhanced_researcher_node")
QualityGates(ts) == CountNode(ts, "quality_checker")
Synthesizers(ts) == CountNode(ts, "enhanced_synthesizer")

\* a step in which the superstep of a quality checker ends: its update is
\* applied and what follows it is started
QualityGateCompletes ==
    /\ QualityGates(tasks) > 0
    /\ QualityGates(tasks') = 0
    /\ pc' # "raised"

\* the feedback in s is a fail without follow-up queries
FailWithoutFollowUps(s) ==
    /\ "quality_check" \in DOMAIN s
    /\ s.quality_check.grade = "fail"
    /\ s.quality_check.follow_up_queries = <<>>

\* the feedback in s is a fail with follow-up queries
FailWithFollowUps(s) ==
    /\ "quality_check" \in DOMAIN s
    /\ s.quality_check.grade = "fail"
    /\ s.quality_check.follow_up_queries # <<>>

\* C1: after every quality gate completion, follow-up researchers are
\* dispatched if and only if the feedback just produced has grade fail, the
\* already incremented research_iterations is below 3 and follow_up_queries
\* is non-empty; and researchers are dispatched by nothing else once the
\* initial batch is out.
C1_FollowUpIff ==
    [][ /\ QualityGateCompletes =>
              ( Researchers(tasks') > 0
                  <=> /\ state'.quality_check.grade = "fail"
                      /\ state'.research_iterations < 3
                      /\ state'.quality_check.follow_up_queries # <<>> )
        /\ (calls.quality_checker > 0 /\ ~QualityGateCompletes) =>
              calls'.enhanced_researcher_node = calls.enhanced_researcher_node
      ]_vars

C1_Witness ==
    /\ pc = "running"
    /\ FailWithFollowUps(state)
    /\ state.research_iterations = 2
    /\ Researchers(tasks) > 0

\* C2: after a quality gate completion the synthesizer is started only
\* when no follow-up researcher is, and once a synthesizer has been started
\* no researcher and no quality gate starts any more.
C2_SynthesisTerminal ==
    [][ /\ QualityGateCompletes =>
              ~(Synthesizers(tasks') > 0 /\ Researchers(tasks') > 0)
        /\ calls.enhanced_synthesizer > 0 =>
              /\ calls'.enhanced_researcher_node
                    = calls.enhanced_researcher_node
              /\ calls'.quality_checker = calls.quality_checker
      ]_vars

\* C3: a run that returns a report has invoked the synthesizer exactly
\* once, and the report field is written at most once.
C3_ReportOnce ==
    /\ outcome = "formatted_report" => calls.enhanced_synthesizer = 1
    /\ report_writes <= 1

\* C4: research_iterations, in the state and in every update a node
\* returns, is between 0 and 3.
C4_IterationsBounded ==
    /\ "research_iterations" \in DOMAIN state =>
            state.research_iterations \in 0..3
    /\ \A i \in 1..Len(tasks) :
            "research_iterations" \in DOMAIN tasks[i].writes =>
                tasks[i].writes.research_iterations \in 0..3

C4_Witness ==
    /\ "research_iterations" \in DOMAIN state
    /\ state.research_iterations = 3
    /\ FailWithFollowUps(state)

\* C5: at most 3 quality gate evaluations and at most 2 follow-up batches;
\* after a third evaluation that fails with follow-ups the synthesizer
\* alone runs.
C5_ThreeEvaluations ==
    /\ calls.quality_checker <= 3
    /\ batches <= 2
    /\ ( /\ pc = "running"
         /\ FailWithFollowUps(state)
         /\ state.research_iterations = 3 )
          => /\ Researchers(tasks) = 0
             /\ QualityGates(tasks) = 0
             /\ Synthesizers(tasks) = 1

C5_Witness ==
    /\ pc = "running"
    /\ FailWithFollowUps(state)
    /\ state.research_iterations = 3
    /\ batches = 2
    /\ calls.quality_checker = 3
    /\ Synthesizers(tasks) = 1

\* C6: every invocation of the pipeline eventually returns to its caller,
\* with a report or with a failure message.
C6_Terminates == (pc = "running") ~> (pc = "returned")

C6_Witness ==
    /\ pc = "returned"
    /\ calls.quality_checker = 3
    /\ batches = 2

\* C7: whenever a quality gate or a synthesizer runs, search_results holds
\* as many entries as researchers have been dispatched so far.
C7_FanInCount ==
    ( /\ pc = "running"
      /\ QualityGates(tasks) + Synthesizers(tasks) > 0 )
        => Len(state.search_results) = calls.enhanced_researcher_node

\* C8: the initial fan-out is one researcher per planned query, in order,
\* each with that query's search_query and purpose and the run's topic.
C8_InitialFanOut ==
    ( "plan" \in DOMAIN state /\ calls.quality_checker = 0 )
        => /\ calls.enhanced_researcher_node = Len(state.plan.queries)
           /\ pc = "running" =>
                /\ Len(tasks) = Len(state.plan.queries)
                /\ \A i \in 1..Len(tasks) :
                      /\ tasks[i].node = "enhanced_researcher_node"
                      /\ tasks[i].arg =
                           <<[query |-> state.plan.queries[i].search_query,
                              purpose |-> state.plan.queries[i].purpose,
                              topic |-> state.topic]>>

C8_Witness ==
    /\ pc = "running"
    /\ step = 2
    /\ Len(tasks) = 2
    /\ tasks[1].arg[1].query # tasks[2].arg[1].query

\* C9: a researcher that has returned has written exactly one result for
\* its query: when an adapter call raised, the error content and the
\* single sentinel insight; otherwise at most 5 insights.
C9_ResearcherAbsorbs ==
    \A i \in 1..Len(tasks) :
        (tasks[i].node = "enhanced_researcher_node" /\ tasks[i].done) =>
            /\ DOMAIN tasks[i].writes = {"search_results"}
            /\ Len(tasks[i].writes.search_results) = 1
            /\ LET r == tasks[i].writes.search_results[1]
               IN  /\ r.query = tasks[i].arg[1].query
                   /\ r.purpose = tasks[i].arg[1].purpose
                   /\ IF tasks[i].caught # ""
                      THEN /\ r.content
                                = <<"Error al obtener informacion: ",
                                    tasks[i].caught>>
                           /\ r.key_insights
                                = <<"Error en la busqueda - informacion no disponible">>
                      ELSE Len(r.key_insights) <= 5

C9_Witness ==
    \E i \in 1..Len(tasks) :
        /\ tasks[i].node = "enhanced_researcher_node"
        /\ tasks[i].done
        /\ tasks[i].caught = "ProviderError"
        /\ Len(tasks[i].writes.search_results) = 1

\* C10: a fail without follow-up queries starts the synthesizer and nothing
\* else, and from then on no researcher and no quality gate starts.
C10_FailWithoutFollowUps ==
    [][ /\ (QualityGateCompletes /\ FailWithoutFollowUps(state')) =>
              /\ Len(tasks') = 1
              /\ tasks'[1].node = "enhanced_synthesizer"
        /\ FailWithoutFollowUps(state) =>
              /\ calls'.enhanced_researcher_node
                    = calls.enhanced_researcher_node
              /\ calls'.quality_checker = calls.quality_checker
      ]_vars

C10_Witness ==
    /\ pc = "running"
    /\ FailWithoutFollowUps(state)
    /\ state.research_iterations = 2
    /\ Synthesizers(tasks) = 1

\* C11: when the first evaluation fails with k >= 1 follow-up queries and
\* the second passes, the finished run holds n + k results, has
\* research_iterations = 2, has invoked the synthesizer exactly once, and
\* its report was generated from a methodology of 2 iterations.
C11_FailThenPass ==
    ( /\ pc = "finished"
      /\ Len(feedbacks) = 2
      /\ feedbacks[1].grade = "fail"
      /\ feedbacks[1].follow_up_queries # <<>>
      /\ feedbacks[2].grade = "pass" )
        => /\ Len(state.search_results)
                = Len(state.plan.queries)
                    + Len(feedbacks[1].follow_up_queries)
           /\ state.research_iterations = 2
           /\ calls.enhanced_synthesizer = 1
           /\ state.report.methodology.iterations = 2

\* C12: when the first evaluation passes, n researchers have run and left
\* n results, the quality gate has run once (research_iterations = 1), no
\* follow-up batch is dispatched, and one synthesizer invocation writes one
\* report from a methodology of 1 iteration.
C12_PassFirst ==
    ( Len(feedbacks) >= 1 /\ feedbacks[1].grade = "pass" )
        => /\ Len(feedbacks) = 1
           /\ calls.quality_checker = 1
           /\ state.research_iterations = 1
           /\ batches = 0
           /\ calls.enhanced_researcher_node = Len(state.plan.queries)
           /\ Len(state.search_results) = Len(state.plan.queries)
           /\ calls.enhanced_synthesizer = 1
           /\ report_writes <= 1
           /\ pc = "finished" =>
                /\ report_writes = 1
                /\ state.report.methodology.iterations = 1
                /\ Len(state.report.research_data) = Len(state.plan.queries)
           /\ (pc = "returned" /\ raised_in = "") =>
                outcome = "formatted_report"

C12_Witness ==
    /\ pc = "returned"
    /\ outcome = "formatted_report"
    /\ Len(feedbacks) = 1
    /\ feedbacks[1].grade = "pass"
    /\ Len(state.plan.queries) = 2
    /\ state.report.methodology.iterations = 1

\* C13: a quality gate whose generation call raises does not abort the
\* run: ainvoke does not raise and the caller gets no exception message.
C13_QualityFailureIsPass ==
    raised_in = "quality_checker"
        => /\ pc # "raised"
           /\ outcome # "Error al ejecutar la investigacion profunda"

\* C14: when the planner's generation call raises, no researcher, quality
\* gate or synthesizer is ever invoked, no report is written, and
\* deep_market_research returns its failure message.
C14_PlannerFailure ==
    raised_in = "enhanced_planner"
        => /\ calls.enhanced_researcher_node = 0
           /\ calls.quality_checker = 0
           /\ calls.enhanced_synthesizer = 0
           /\ "report" \notin DOMAIN state
           /\ pc \in {"raised", "returned"}
           /\ pc = "returned" =>
                outcome = "Error al ejecutar la investigacion profunda"

C14_Witness ==
    /\ raised_in = "enhanced_planner"
    /\ pc = "returned"
    /\ step = 1

\* C15: a plan without queries ends the run with no researcher, quality
\* gate or synthesizer invoked, and the caller gets the no-report failure.
C15_EmptyPlan ==
    ( "plan" \in DOMAIN state /\ state.plan.queries = <<>> )
        => /\ calls.enhanced_researcher_node = 0
           /\ calls.quality_checker = 0
           /\ calls.enhanced_synthesizer = 0
           /\ "report" \notin DOMAIN state
           /\ pc \in {"finished", "returned"}
           /\ pc = "returned" =>
                outcome
                  = "Error: No se pudo generar el informe de investigacion."

C15_Witness ==
    /\ "plan" \in DOMAIN state
    /\ state.plan.queries = <<>>
    /\ pc = "returned"

\* C16: when a synthesizer's generation call raises, the run is over and
\* the caller gets the failure message, also when an earlier synthesizer
\* of the run has written a report.
C16_SynthesizerFailure ==
    raised_in = "enhanced_synthesizer"
        => /\ pc \in {"raised", "returned"}
           /\ tasks = <<>>
           /\ pc = "returned" =>
                outcome = "Error al ejecutar la investigacion profunda"

C16_Witness ==
    /\ raised_in = "enhanced_synthesizer"
    /\ "report" \in DOMAIN state
    /\ pc = "returned"

\* C17: the caller gets nothing before the return and then exactly one of
\* the report and the two failure messages; it gets the report only when
\* no generation call of the run raised and a synthesizer has written it.
C17_ReportOrFailure ==
    /\ pc # "returned" => outcome = "none"
    /\ pc = "returned" =>
         outcome \in
            { "formatted_report",
              "Error: No se pudo generar el informe de investigacion.",
              "Error al ejecutar la investigacion profunda" }
    /\ outcome = "formatted_report" =>
         /\ raised_in = ""
         /\ "report" \in DOMAIN state
         /\ report_writes >= 1
         /\ calls.enhanced_synthesizer = calls.quality_checker
         /\ report_writes = calls.enhanced_synthesizer

C17_Witness ==
    /\ pc = "returned"
    /\ outcome = "formatted_report"
    /\ calls.quality_checker = 2

AllDone(ts) == \A i \in 1..Len(ts) : ts[i].done

\* C18: a quality gate starts only in the step that ends a superstep of
\* researchers which have all completed, with one result stored per
\* researcher dispatched so far; exactly one quality gate starts there,
\* whatever the size of the batch; and no researcher runs beside a quality
\* gate.
C18_Barrier ==
    [][ /\ calls'.quality_checker # calls.quality_checker =>
              /\ Researchers(tasks) > 0
              /\ AllDone(tasks)
              /\ calls'.quality_checker = calls.quality_checker + 1
              /\ Len(state'.search_results) = calls.enhanced_researcher_node
        /\ (Researchers(tasks) > 0 /\ AllDone(tasks)) =>
              /\ QualityGates(tasks') = 1
              /\ calls'.quality_checker = calls.quality_checker + 1
        /\ QualityGates(tasks) > 0 => Researchers(tasks) = 0
      ]_vars

C18_Witness ==
    /\ pc = "running"
    /\ QualityGates(tasks) = 1
    /\ batches = 1
    /\ Len(state.search_results) = 3
    /\ calls.quality_checker = 2

\* C19: the planner, a quality gate or a synthesizer is the only task of
\* its superstep.
C19_RunAlone ==
    ( /\ pc = "running"
      /\ CountNode(tasks, "enhanced_planner") + QualityGates(tasks)
            + Synthesizers(tasks) > 0 )
        => Len(tasks) = 1

\* C20: a superstep of researchers is never aborted, whichever of them
\* fail: when it ends every researcher of the batch has added one result
\* and one quality gate starts.
C20_SiblingIsolation ==
    [][ (pc = "running" /\ Researchers(tasks) > 0) =>
            /\ pc' # "raised"
            /\ Len(tasks') >= 1
            /\ AllDone(tasks) =>
                 /\ Len(state'.search_results)
                      = Len(state.search_results) + Researchers(tasks)
                 /\ QualityGates(tasks') = 1
      ]_vars

IsPrefix(a, b) == Len(a) <= Len(b) /\ SubSeq(b, 1, Len(a)) = a

\* C21: search_results only grows: every step keeps the entries it holds,
\* unchanged and in place; it grows only at the end of a superstep, by one
\* entry per researcher of that superstep; and no planner, quality gate or
\* synthesizer returns an update for it.
C21_AppendOnly ==
    [][ /\ "search_results" \in DOMAIN state =>
              /\ "search_results" \in DOMAIN state'
              /\ IsPrefix(state.search_results, state'.search_results)
              /\ Len(state'.search_results) # Len(state.search_results) =>
                    /\ AllDone(tasks)
                    /\ Len(state'.search_results)
                          = Len(state.search_results) + Researchers(tasks)
        /\ \A i \in 1..Len(tasks') :
              tasks'[i].node # "enhanced_researcher_node" =>
                  "search_results" \notin DOMAIN tasks'[i].writes
      ]_vars

C21_Witness ==
    /\ pc = "finished"
    /\ Len(state.search_results) = 3
    /\ report_writes = 2
    /\ Len(state.report.research_data) = 3

\* C22: once the plan is stored research_iterations equals the number of
\* quality gate evaluations completed so far (0 before the first); a step
\* never decreases it, and it grows, by exactly 1, exactly in the steps
\* that complete a quality gate evaluation, whatever the grade.
C22_IterationsCountEvaluations ==
    [][ /\ "plan" \in DOMAIN state' =>
              /\ "research_iterations" \in DOMAIN state'
              /\ state'.research_iterations = Len(feedbacks')
        /\ "plan" \notin DOMAIN state' => feedbacks' = <<>>
        /\ "plan" \in DOMAIN state =>
              state'.research_iterations
                 = state.research_iterations
                     + (IF QualityGateCompletes THEN 1 ELSE 0)
      ]_vars

C22_Witness ==
    /\ pc = "finished"
    /\ state.research_iterations = 3
    /\ Len(feedbacks) = 3
    /\ feedbacks[1].grade = "fail"
    /\ feedbacks[3].grade = "pass"

SingleValued == {"plan", "quality_check", "research_iterations", "report"}

\* C25: the tasks of one superstep write disjoint single-valued keys, so
\* no superstep ends in a conflicting update; at most one planner, one
\* quality gate and one synthesizer run in a superstep; and a quality gate,
\* the only node that increments research_iterations, never runs beside
\* another task that writes that key.
C25_NoConflictingWrites ==
    /\ \A i, j \in 1..Len(tasks) :
          i < j =>
            (DOMAIN tasks[i].writes \cap DOMAIN tasks[j].writes)
                \cap SingleValued = {}
    /\ ~InvalidUpdate(tasks)
    /\ pc = "raised" => raised_in # ""
    /\ CountNode(tasks, "enhanced_planner") <= 1
    /\ QualityGates(tasks) <= 1
    /\ Synthesizers(tasks) <= 1
    /\ QualityGates(tasks) = 1 =>
          /\ CountNode(tasks, "enhanced_planner") = 0
          /\ \A i \in 1..Len(tasks) :
                "research_iterations" \in DOMAIN tasks[i].writes =>
                    tasks[i].node = "quality_checker"
    /\ \A i \in 1..Len(tasks) :
          "research_iterations" \in DOMAIN tasks[i].writes =>
              tasks[i].node \in {"enhanced_planner", "quality_checker"}

C25_Witness ==
    /\ pc = "running"
    /\ Len(tasks) = 2
    /\ AllDone(tasks)
    /\ Synthesizers(tasks) = 1
    /\ Researchers(tasks) = 1
    /\ \E i \in 1..Len(tasks) : "report" \in DOMAIN tasks[i].writes

\* C26: the report the caller gets was written by the synthesizer that
\* ran after the last quality gate evaluation: it was generated from every
\* result of the run, one per researcher dispatched, and from as many
\* iterations as quality gates have run; a report written beside a
\* follow-up batch has been overwritten by then.
C26_FinalReportIsLast ==
    outcome = "formatted_report" =>
        /\ state.report.research_data = state.search_results
        /\ Len(state.report.research_data) = calls.enhanced_researcher_node
        /\ state.report.methodology.iterations = calls.quality_checker
        /\ state.report.methodology.iterations = Len(feedbacks)
        /\ report_writes = batches + 1

C26_Witness ==
    /\ outcome = "formatted_report"
    /\ batches = 2
    /\ Len(state.report.research_data) = 4
    /\ report_writes = 3

\* two results are the same result (the content is compared last: error
\* and search contents are values of different shapes)
SameResult(r1, r2) ==
    /\ r1.query = r2.query
    /\ r1.purpose = r2.purpose
    /\ r1.key_insights = r2.key_insights
    /\ r1.content = r2.content

\* how often the result r occurs in seq
Count(seq, r) == Cardinality({i \in 1..Len(seq) : SameResult(seq[i], r)})

\* the results the researchers of a superstep returned, in task order
Returned_results(ts) ==
    LET rs == SelectSeq(ts, LAMBDA t : t.node = "enhanced_researcher_node")
    IN  [i \in 1..Len(rs) |-> rs[i].writes.search_results[1]]

\* C24: at the join of a batch, search_results gains, as a multiset,
\* exactly the results its researchers returned, whatever the order in
\* which they completed; and each of these results, error or not, carries
\* the query and purpose its researcher was dispatched with.
C24_JoinOrderIndependent ==
    [][ (pc = "running" /\ Researchers(tasks) > 0 /\ AllDone(tasks)) =>
          LET new == Returned_results(tasks)
              all == state'.search_results \o new
          IN  /\ Len(order) = Len(tasks) => pc' = "running"
              /\ Len(state'.search_results)
                    = Len(state.search_results) + Len(new)
              /\ \A k \in 1..Len(all) :
                    Count(state'.search_results, all[k])
                        = Count(state.search_results, all[k])
                            + Count(new, all[k])
              /\ \A i \in 1..Len(tasks) :
                    /\ tasks[i].writes.search_results[1].query
                          = tasks[i].arg[1].query
                    /\ tasks[i].writes.search_results[1].purpose
                          = tasks[i].arg[1].purpose
      ]_vars

C24_Witness ==
    /\ QualityGates(tasks) = 1
    /\ order = <<3, 1, 2>>
    /\ Len(state.search_results) = 3
    /\ state.search_results[1].query = state.plan.queries[1].search_query
    /\ state.search_results[1].key_insights = <<ErrorInsight>>
    /\ state.search_results[3].key_insights # <<ErrorInsight>>
    /\ state.search_results[3].query = state.plan.queries[3].search_query
    /\ state.plan.queries[1] # state.plan.queries[3]

\* C27: a call of get_postgres_saver that returns, returns a saver whose
\* setup() has completed; in particular never one whose setup() raised.
C27_SaverIsSetUp ==
    \A t \in ThreadIds :
        ( /\ threads[t].op = "get_postgres_saver"
          /\ threads[t].pc = "done"
          /\ threads[t].result # None )
            => savers[threads[t].result].setup # "raised"

\* C28: between two closes at most one ConnectionPool is constructed, and
\* the calls of get_connection_pool that have returned a pool still open
\* have all returned the same one.
C28_PoolSingleton ==
    /\ constructed <= 1
    /\ \A t1, t2 \in ThreadIds :
          ( /\ threads[t1].op = "get_connection_pool"
            /\ threads[t2].op = "get_connection_pool"
            /\ threads[t1].pc = "done"
            /\ threads[t2].pc = "done"
            /\ threads[t1].result # None
            /\ threads[t2].result # None
            /\ ~pools[threads[t1].result].closed
            /\ ~pools[threads[t2].result].closed )
              => threads[t1].result = threads[t2].result

\* the waits of a wrapper call after its first n failures
BackoffDelays(n) == [k \in 1..n |-> delay * Pow2(k - 1)]

\* C30: a wrapper call makes at most max_retries calls of the function;
\* when it returns, it returns the value of its last call, the only one
\* that did not raise; before its k-th retry it has waited
\* delay * 2^(k-1); and when it re-raises the function's failure it has
\* made max_retries calls and waited max_retries - 1 times, not after the
\* last one.
C30_RetryBound ==
    \A t \in ThreadIds :
        LET th == threads[t]
        IN  th.op = "func" =>
              /\ th.attempts <= max_retries
              /\ th.retries <= th.attempts
              /\ th.slept = BackoffDelays(Len(th.slept))
              /\ th.retries < max_retries => Len(th.slept) = th.retries
              /\ th.pc = "done" =>
                    /\ th.result = FuncValue
                    /\ th.attempts = th.retries + 1
              /\ (th.pc = "raised" /\ th.exc = "failure") =>
                    /\ th.attempts = max_retries
                    /\ th.retries = max_retries
                    /\ Len(th.slept) = max_retries - 1
              /\ (th.pc = "raised" /\ th.exc # "failure") =>
                    max_retries = 0 /\ th.attempts = 0

C30_Witness ==
    \E t \in ThreadIds :
        /\ threads[t].op = "func"
        /\ threads[t].pc = "raised"
        /\ threads[t].exc = "failure"
        /\ max_retries = 3
        /\ delay = 5
        /\ threads[t].attempts = 3
        /\ threads[t].slept = <<5, 10>>

\* C29: the update either tool returns holds exactly one ToolMessage, with
\* the tool_call_id of the call; when the tool failed internally the
\* update holds nothing else, and applying it leaves business_info,
\* long_term_memory and current_plan as they were.
C29_ToolFailureFrame ==
    [][ /\ tool_call'.pc \in {"returned", "applied"} =>
              /\ "messages" \in DOMAIN command'
              /\ Len(command'.messages) = 1
              /\ command'.messages[1].type = "tool"
              /\ command'.messages[1].tool_call_id = tool_call'.tool_call_id
              /\ tool_call'.failed => DOMAIN command' = {"messages"}
        /\ tool_call'.pc = "applied" =>
              /\ Len(pymes_state'.messages) = Len(pymes_state.messages) + 1
              /\ tool_call.failed =>
                    /\ pymes_state'.business_info = pymes_state.business_info
                    /\ pymes_state'.long_term_memory
                          = pymes_state.long_term_memory
                    /\ pymes_state'.current_plan = pymes_state.current_plan
      ]_vars

C29_Witness ==
    /\ tool_call # <<>>
    /\ tool_call.name = "create_action_and_savings_plan"
    /\ tool_call.pc = "applied"
    /\ tool_call.failed
    /\ pymes_state.current_plan = Some("old plan")
    /\ Len(pymes_state.messages) = 1
    /\ pymes_state.messages[1].tool_call_id = tool_call.tool_call_id

====
